---- MODULE Spec2Model ----
(***************************************************************************)
(* Model of the command-line tokenizer split_quoted_line of src/main.rs.   *)
(* A line is a sequence of characters; a character is a one-character     *)
(* string.  The scan of the line is one step per character, followed by   *)
(* the end-of-input handling.  The read-eval loop of main, parse_command   *)
(* and run_command are modelled around it: they call the tokenizer on the  *)
(* argument text of echo and on the whole line of an external command.     *)
(***************************************************************************)
EXTENDS Integers, Sequences, FiniteSets, TLC

\* ------------------------------------------------------------------ bounds
MaxLen == 4
\* the longest text after the first word of a line typed at the prompt
MaxTail == 3

\* -------------------------------------------------------------- characters
SQ == "'"
DQ == "\""
BS == "\\"
SP == " "
TAB == "\t"

\* variant: only the space character is a delimiter
IsSpaceOnly(c) == c = " "

\* char::is_ascii_whitespace: U+0020 SPACE, U+0009 TAB, U+000A LF,
\* U+000C FF, U+000D CR
IsAsciiWhitespace(c) == c \in {" ", "\t", "\n", "\f", "\r"}

\* the characters the lines of the model are made of
Alphabet == {"a", "b", SP, TAB, SQ, DQ, BS}

Lines == UNION {[1..n -> Alphabet] : n \in 0..MaxLen}

VARIABLES line, pos, parts, cur, in_single, in_double, esc, pc

\* the state of the shell around the tokenizer: the line read by main, the
\* command parse_command returned, the call site the tokenizer returns to,
\* the last text written to standard output, the working directory
VARIABLES input, cmd, caller, out, cwd

shellvars == <<input, cmd, caller, out, cwd>>

vars ==
  <<line, pos, parts, cur, in_single, in_double, esc, pc,
    input, cmd, caller, out, cwd>>

\* ------------------------------------------------- the body of the loop
\* The local state of split_quoted_line as a record.
Locals0 ==
  [parts |-> <<>>, cur |-> <<>>, in_single |-> FALSE, in_double |-> FALSE,
   esc |-> FALSE]

\* variant: the backslash is kept in front of every escaped character
DoubleEscapedKeepAll(s, ch) ==
  [s EXCEPT !.cur = Append(Append(s.cur, BS), ch), !.esc = FALSE]

\* variant: the backslash is dropped in front of every escaped character
DoubleEscapedDropAll(s, ch) ==
  [s EXCEPT !.cur = Append(s.cur, ch), !.esc = FALSE]

\* inside double quotes, after a backslash
DoubleEscaped(s, ch) ==
  IF ch = DQ \/ ch = BS
    THEN [s EXCEPT !.cur = Append(s.cur, ch), !.esc = FALSE]
    ELSE [s EXCEPT !.cur = Append(Append(s.cur, BS), ch), !.esc = FALSE]

\* variant: whitespace inside double quotes ends the token
DoubleQuotedSplits(s, ch) ==
  CASE ch = BS -> [s EXCEPT !.esc = TRUE]
    [] ch = DQ -> [s EXCEPT !.in_double = FALSE]
    [] ch \notin {BS, DQ} /\ IsAsciiWhitespace(ch) ->
         [s EXCEPT !.parts = Append(s.parts, s.cur), !.cur = <<>>]
    [] OTHER   -> [s EXCEPT !.cur = Append(s.cur, ch)]

\* variant: a single quote inside double quotes opens single-quoted mode
DoubleQuotedNests(s, ch) ==
  CASE ch = BS -> [s EXCEPT !.esc = TRUE]
    [] ch = DQ -> [s EXCEPT !.in_double = FALSE]
    [] ch = SQ -> [s EXCEPT !.in_single = TRUE]
    [] OTHER   -> [s EXCEPT !.cur = Append(s.cur, ch)]

\* inside double quotes, no escape pending
DoubleQuoted(s, ch) ==
  CASE ch = BS -> [s EXCEPT !.esc = TRUE]
    [] ch = DQ -> [s EXCEPT !.in_double = FALSE]
    [] OTHER   -> [s EXCEPT !.cur = Append(s.cur, ch)]

\* variant: a backslash inside single quotes is dropped
SingleQuotedDropBackslash(s, ch) ==
  IF ch = SQ
    THEN [s EXCEPT !.in_single = FALSE]
    ELSE IF ch = BS THEN s ELSE [s EXCEPT !.cur = Append(s.cur, ch)]

\* variant: a backslash inside single quotes is appended and left pending
SingleQuotedBackslashPending(s, ch) ==
  CASE ch = SQ -> [s EXCEPT !.in_single = FALSE]
    [] ch = BS -> [s EXCEPT !.cur = Append(s.cur, ch), !.esc = TRUE]
    [] OTHER   -> [s EXCEPT !.cur = Append(s.cur, ch)]

\* variant: a backslash inside single quotes starts an escape
SingleQuotedEscapes(s, ch) ==
  CASE ch = SQ -> [s EXCEPT !.in_single = FALSE]
    [] ch = BS -> [s EXCEPT !.esc = TRUE]
    [] OTHER   -> [s EXCEPT !.cur = Append(s.cur, ch)]

\* variant: the closing single quote ends the token
SingleQuotedCloseFlushes(s, ch) ==
  IF ch = SQ
    THEN [s EXCEPT !.in_single = FALSE,
                   !.parts = IF s.cur # <<>> THEN Append(s.parts, s.cur)
                                             ELSE s.parts,
                   !.cur = <<>>]
    ELSE [s EXCEPT !.cur = Append(s.cur, ch)]

\* inside single quotes
SingleQuoted(s, ch) ==
  IF ch = SQ
    THEN [s EXCEPT !.in_single = FALSE]
    ELSE [s EXCEPT !.cur = Append(s.cur, ch)]

\* variant: an escaped whitespace character still ends the token
NormalEscapedSplits(s, ch) ==
  IF IsAsciiWhitespace(ch)
    THEN [s EXCEPT !.parts = Append(s.parts, s.cur), !.cur = <<>>,
                   !.esc = FALSE]
    ELSE [s EXCEPT !.cur = Append(s.cur, ch), !.esc = FALSE]

\* outside quotes, after a backslash
NormalEscaped(s, ch) ==
  [s EXCEPT !.cur = Append(s.cur, ch), !.esc = FALSE]

\* variant: the token is pushed without the emptiness test
FlushTokenAlways(s) ==
  [s EXCEPT !.parts = Append(s.parts, s.cur), !.cur = <<>>]

\* variant: the token is inserted at the front of the output
FlushTokenFront(s) ==
  IF s.cur # <<>>
    THEN [s EXCEPT !.parts = <<s.cur>> \o s.parts, !.cur = <<>>]
    ELSE s

\* if !cur.is_empty() { parts.push(std::mem::take(&mut cur)) }
FlushToken(s) ==
  IF s.cur # <<>>
    THEN [s EXCEPT !.parts = Append(s.parts, s.cur), !.cur = <<>>]
    ELSE s

\* variant: the opening quote is copied into the token
NormalCharKeepsQuote(s, ch) ==
  CASE ch = SQ -> [s EXCEPT !.in_single = TRUE, !.cur = Append(s.cur, ch)]
    [] ch = DQ -> [s EXCEPT !.in_double = TRUE, !.cur = Append(s.cur, ch)]
    [] ch = BS -> [s EXCEPT !.esc = TRUE]
    [] ch \notin {SQ, DQ, BS} /\ IsAsciiWhitespace(ch) ->
         IF s.cur # <<>>
           THEN [s EXCEPT !.parts = Append(s.parts, s.cur), !.cur = <<>>]
           ELSE s
    [] OTHER   -> [s EXCEPT !.cur = Append(s.cur, ch)]

\* outside quotes, no escape pending
NormalChar(s, ch) ==
  CASE ch = SQ -> [s EXCEPT !.in_single = TRUE]
    [] ch = DQ -> [s EXCEPT !.in_double = TRUE]
    [] ch = BS -> [s EXCEPT !.esc = TRUE]
    [] ch \notin {SQ, DQ, BS} /\ IsAsciiWhitespace(ch) -> FlushToken(s)
    [] OTHER   -> [s EXCEPT !.cur = Append(s.cur, ch)]

\* one iteration of `for ch in line.chars()`
Body(s, ch) ==
  IF s.in_double
    THEN IF s.esc THEN DoubleEscaped(s, ch) ELSE DoubleQuoted(s, ch)
    ELSE IF s.in_single
      THEN SingleQuoted(s, ch)
      ELSE IF s.esc THEN NormalEscaped(s, ch) ELSE NormalChar(s, ch)

\* variant: the pending backslash is discarded at end of input
TrailingBackslashDropped(s) == s

\* if esc { cur.push('\\') }
TrailingBackslash(s) ==
  IF s.esc THEN [s EXCEPT !.cur = Append(s.cur, BS)] ELSE s

\* the code after the loop: trailing backslash, then the final flush
EndOfInput(s) == FlushToken(TrailingBackslash(s))

\* variant: the iterator does not move
AdvanceStuck(p) == p

\* the position of the iterator after one more character
Advance(p) == p + 1

\* the locals after the first k characters of l
RECURSIVE StateAfter(_, _)
StateAfter(l, k) ==
  IF k = 0 THEN Locals0 ELSE Body(StateAfter(l, k - 1), l[k])

\* the value split_quoted_line returns for the line l
split_quoted_line(l) == EndOfInput(StateAfter(l, Len(l))).parts

\* ------------------------------------------------------------ the machine
\* PrimitiveCommand: Echo(text), Exit(code), Unknown(text), Empty
Command(k, t, c) == [kind |-> k, text |-> t, code |-> c]

\* no command: before parse_command returns and after run_command took it
NoCommand == Command("None", <<>>, 0)

\* the directories of the file system the shell runs in, as absolute paths
Dirs == {<<"/">>, <<"/", "a", "/">>}

\* the working directory the shell is started in
StartDir == <<"/">>

Locals ==
  [parts |-> parts, cur |-> cur, in_single |-> in_single,
   in_double |-> in_double, esc |-> esc]

SetLocals(s) ==
  /\ parts' = s.parts
  /\ cur' = s.cur
  /\ in_single' = s.in_single
  /\ in_double' = s.in_double
  /\ esc' = s.esc

Init ==
  /\ line \in Lines
  /\ pos = 0
  /\ parts = Locals0.parts
  /\ cur = Locals0.cur
  /\ in_single = Locals0.in_single
  /\ in_double = Locals0.in_double
  /\ esc = Locals0.esc
  /\ pc = "scan"
  /\ input = <<>>
  /\ cmd = NoCommand
  /\ caller = "none"
  /\ out = <<>>
  /\ cwd = StartDir

HasNext == pc = "scan" /\ pos < Len(line)

ch == line[pos + 1]

Consume(s) ==
  /\ SetLocals(s)
  /\ pos' = Advance(pos)
  /\ UNCHANGED <<line, pc>>
  /\ UNCHANGED shellvars

StepDoubleEscaped ==
  /\ HasNext /\ in_double /\ esc
  /\ Consume(DoubleEscaped(Locals, ch))

StepDoubleQuoted ==
  /\ HasNext /\ in_double /\ ~esc
  /\ Consume(DoubleQuoted(Locals, ch))

StepSingleQuoted ==
  /\ HasNext /\ ~in_double /\ in_single
  /\ Consume(SingleQuoted(Locals, ch))

StepNormalEscaped ==
  /\ HasNext /\ ~in_double /\ ~in_single /\ esc
  /\ Consume(NormalEscaped(Locals, ch))

StepNormalChar ==
  /\ HasNext /\ ~in_double /\ ~in_single /\ ~esc
  /\ Consume(NormalChar(Locals, ch))

Return ==
  /\ pc = "scan" /\ pos >= Len(line)
  /\ SetLocals(EndOfInput(Locals))
  /\ pc' = "done"
  /\ UNCHANGED <<line, pos>>
  /\ UNCHANGED shellvars

Next ==
  \/ StepDoubleEscaped
  \/ StepDoubleQuoted
  \/ StepSingleQuoted
  \/ StepNormalEscaped
  \/ StepNormalChar
  \/ Return

Spec == Init /\ [][Next]_vars

\* the code is sequential: the loop and the return are always taken
FairSpec == Spec /\ WF_vars(Next)

TypeOK ==
  /\ line \in Lines
  /\ pos \in 0..Len(line)
  /\ pc \in {"scan", "done"}
  /\ in_single \in BOOLEAN /\ in_double \in BOOLEAN /\ esc \in BOOLEAN
  /\ cur \in Seq(Alphabet)
  /\ \A i \in 1..Len(parts) : parts[i] \in Seq(Alphabet)

\* ------------------------------------------------------------- the shell
\* char::is_whitespace (the White_Space property), over the characters of
\* the model; str::trim, trim_start and split_whitespace use it
IsWhitespace(c) == c \in {" ", "\t", "\n", "\f", "\r"}

\* str::trim_start
RECURSIVE TrimStart(_)
TrimStart(l) ==
  IF l # <<>> /\ IsWhitespace(l[1]) THEN TrimStart(Tail(l)) ELSE l

\* str::trim_end
RECURSIVE TrimEnd(_)
TrimEnd(l) ==
  IF l # <<>> /\ IsWhitespace(l[Len(l)])
    THEN TrimEnd(SubSeq(l, 1, Len(l) - 1))
    ELSE l

\* str::trim
Trim(l) == TrimEnd(TrimStart(l))

\* str::strip_prefix: whether it is Some, and the rest when it is
HasPrefix(l, p) == Len(l) >= Len(p) /\ SubSeq(l, 1, Len(p)) = p

AfterPrefix(l, p) == SubSeq(l, Len(p) + 1, Len(l))

KwExit == <<"e", "x", "i", "t">>
KwEcho == <<"e", "c", "h", "o">>
KwType == <<"t", "y", "p", "e">>
KwPwd == <<"p", "w", "d">>
KwCd == <<"c", "d">>

\* let builtins = ["exit", "echo", "type", "pwd", "cd"]
Builtins == {KwExit, KwEcho, KwType, KwPwd, KwCd}

\* the characters of l up to its first whitespace character
RECURSIVE UntilWhitespace(_)
UntilWhitespace(l) ==
  IF l = <<>> \/ IsWhitespace(l[1]) THEN <<>>
  ELSE <<l[1]>> \o UntilWhitespace(Tail(l))

\* rest.split_whitespace().next(): the first word, <<>> when there is none
NextWord(rest) == UntilWhitespace(TrimStart(rest))

Digits == <<"0", "1", "2", "3", "4", "5", "6", "7", "8", "9">>

DigitValue(c) == (CHOOSE n \in 1..10 : Digits[n] = c) - 1

RECURSIVE DecimalValue(_)
DecimalValue(w) ==
  IF w = <<>> THEN 0
  ELSE DecimalValue(SubSeq(w, 1, Len(w) - 1)) * 10 + DigitValue(w[Len(w)])

\* num_str.parse::<i32>(): an optional sign, then decimal digits, in range
ParseI32(w) ==
  LET signed == w # <<>> /\ w[1] \in {"+", "-"}
      body == IF signed THEN Tail(w) ELSE w
      allDigits == \A i \in 1..Len(body) : \E n \in 1..10 : Digits[n] = body[i]
      val == (IF signed /\ w[1] = "-" THEN -1 ELSE 1) * DecimalValue(body)
  IN IF body # <<>> /\ allDigits /\ val >= -2147483647 - 1 /\ val <= 2147483647
       THEN [ok |-> TRUE, val |-> val]
       ELSE [ok |-> FALSE, val |-> 0]

\* the exit code of the exit builtin
ExitCode(rest) ==
  LET w == NextWord(rest) IN
    IF w # <<>> /\ ParseI32(w).ok THEN ParseI32(w).val ELSE 0

\* the one directory of PATH and the executable files in it
PathDir == <<"/", "b", "/">>

PathCommands == {<<"a">>}

\* find_in_path: whether it is Some, and the path when it is
FindInPath(name) == name \in PathCommands

PathOf(name) == PathDir \o name

\* the text the type builtin prints for arg
TypeText(arg) ==
  IF arg \in Builtins THEN arg \o <<" is a shell builtin">>
  ELSE IF FindInPath(arg) THEN arg \o <<" is ">> \o PathOf(arg)
  ELSE arg \o <<" not found">>

\* the HOME variable of the environment
Home == [set |-> TRUE, value |-> <<"/", "a">>]

\* Path::join: an absolute rest replaces the base
PathJoin(base, rest) ==
  IF rest # <<>> /\ rest[1] = "/" THEN rest
  ELSE IF base # <<>> /\ base[Len(base)] = "/" THEN base \o rest
  ELSE base \o <<"/">> \o rest

ExpandTilde(p) ==
  IF HasPrefix(p, <<"~">>) /\ Home.set
    THEN PathJoin(Home.value, AfterPrefix(p, <<"~">>))
    ELSE p

\* the directory env::set_current_dir(target) resolves to from dir
Resolve(dir, target) ==
  LET abs == IF target[1] = "/" THEN target ELSE dir \o target
  IN IF abs[Len(abs)] = "/" THEN abs ELSE abs \o <<"/">>

\* whether env::set_current_dir(target) succeeds
CanEnter(dir, target) == target # <<>> /\ Resolve(dir, target) \in Dirs

\* Vec<String>::join(sep)
RECURSIVE Join(_, _)
Join(ts, sep) ==
  IF ts = <<>> THEN <<>>
  ELSE IF Len(ts) = 1 THEN ts[1]
  ELSE ts[1] \o sep \o Join(Tail(ts), sep)

\* the branch of parse_command a trimmed line takes
Branch(l) ==
  IF l = <<>> THEN "empty"
  ELSE IF HasPrefix(l, KwExit) THEN "exit"
  ELSE IF HasPrefix(l, KwEcho) THEN "echo"
  ELSE IF HasPrefix(l, KwType) THEN "type"
  ELSE IF l = KwPwd THEN "pwd"
  ELSE IF HasPrefix(l, KwCd) THEN "cd"
  ELSE "external"

\* the characters typed after the first word, and the first words typed
TailAlphabet == {"a", SP, SQ, DQ, BS}

Tails == UNION {[1..n -> TailAlphabet] : n \in 0..MaxTail}

Heads == {<<>>, KwExit, KwExit \o <<SP, "1">>, KwEcho, KwType, KwPwd, KwCd}

\* what read_line can return: a typed line with its newline, or nothing at
\* the end of the input
Inputs == {h \o t \o <<"\n">> : h \in Heads, t \in Tails} \cup {<<>>}

\* variant: the quoting state of the previous call is still in force
EnterKeepsMode(s) ==
  [Locals0 EXCEPT !.in_single = s.in_single, !.in_double = s.in_double,
                  !.esc = s.esc]

\* the locals at the entry of split_quoted_line, whatever s was there before
Enter(s) == Locals0

ShellInit ==
  /\ pc = "prompt"
  /\ line = <<>>
  /\ pos = 0
  /\ parts = Locals0.parts
  /\ cur = Locals0.cur
  /\ in_single = Locals0.in_single
  /\ in_double = Locals0.in_double
  /\ esc = Locals0.esc
  /\ input = <<>>
  /\ cmd = NoCommand
  /\ caller = "none"
  /\ out = <<>>
  /\ cwd = StartDir

tokvars == <<line, pos, parts, cur, in_single, in_double, esc>>

\* print!("$ "); io::stdout().flush()
Prompt ==
  /\ pc = "prompt"
  /\ out' = <<"$", " ">>
  /\ pc' = "read"
  /\ UNCHANGED <<tokvars, input, cmd, caller, cwd>>

\* io::stdin().read_line(&mut input)
ReadLine ==
  /\ pc = "read"
  /\ input' \in Inputs
  /\ pc' = "parse"
  /\ UNCHANGED <<tokvars, cmd, caller, out, cwd>>

\* parse_command returns c
Parsed(c) ==
  /\ cmd' = c
  /\ pc' = "run"
  /\ UNCHANGED <<tokvars, input, caller, out>>

\* parse_command calls split_quoted_line(arg)
CallTokenizer(arg, site) ==
  /\ line' = arg
  /\ pos' = 0
  /\ SetLocals(Enter(Locals))
  /\ pc' = "scan"
  /\ caller' = site
  /\ UNCHANGED <<input, cmd, out, cwd>>

ParseEmpty ==
  /\ pc = "parse" /\ Branch(Trim(input)) = "empty"
  /\ Parsed(Command("Empty", <<>>, 0))
  /\ UNCHANGED cwd

ParseExit ==
  /\ pc = "parse" /\ Branch(Trim(input)) = "exit"
  /\ Parsed(Command("Exit", <<>>, ExitCode(AfterPrefix(Trim(input), KwExit))))
  /\ UNCHANGED cwd

ParseEcho ==
  /\ pc = "parse" /\ Branch(Trim(input)) = "echo"
  /\ CallTokenizer(TrimStart(AfterPrefix(Trim(input), KwEcho)), "echo")

ParseType ==
  /\ pc = "parse" /\ Branch(Trim(input)) = "type"
  /\ Parsed(Command("Echo",
                    TypeText(TrimStart(AfterPrefix(Trim(input), KwType))), 0))
  /\ UNCHANGED cwd

ParsePwd ==
  /\ pc = "parse" /\ Branch(Trim(input)) = "pwd"
  /\ Parsed(Command("Echo", cwd, 0))
  /\ UNCHANGED cwd

ParseCd ==
  /\ pc = "parse" /\ Branch(Trim(input)) = "cd"
  /\ LET target == ExpandTilde(TrimStart(AfterPrefix(Trim(input), KwCd))) IN
       IF CanEnter(cwd, target)
         THEN /\ cwd' = Resolve(cwd, target)
              /\ Parsed(Command("Empty", <<>>, 0))
         ELSE /\ UNCHANGED cwd
              /\ Parsed(Command("Echo",
                   <<"cd: ">> \o target \o <<": No such file or directory">>,
                   0))

ParseExternal ==
  /\ pc = "parse" /\ Branch(Trim(input)) = "external"
  /\ CallTokenizer(Trim(input), "exec")

\* the tokenizer returned to parse_command, which returns c; the token
\* vector and the line are dropped, the flags are dead stack values
Returned(c) ==
  /\ cmd' = c
  /\ pc' = "run"
  /\ caller' = "none"
  /\ line' = <<>> /\ pos' = 0 /\ parts' = <<>> /\ cur' = <<>>
  /\ UNCHANGED <<in_single, in_double, esc, input, out, cwd>>

\* PrimitiveCommand::Echo(split_quoted_line(..).join(" "))
EchoJoin ==
  /\ pc = "done" /\ caller = "echo"
  /\ Returned(Command("Echo", Join(parts, <<SP>>), 0))

\* the external command: found or not, and how the process ends
ExecCommand ==
  /\ pc = "done" /\ caller = "exec"
  /\ IF parts = <<>> THEN Returned(Command("Empty", <<>>, 0))
     ELSE IF ~FindInPath(parts[1])
       THEN Returned(Command("Unknown", parts[1], 0))
       ELSE \E c \in {Command("Echo", <<"stdout of ">> \o parts[1], 0),
                      Command("Echo", <<"stderr of ">> \o parts[1], 0),
                      Command("Unknown", parts[1], 0)} : Returned(c)

\* run_command, and the end of the iteration of the loop of main
RunCommand ==
  /\ pc = "run"
  /\ CASE cmd.kind = "Exit" ->
            /\ pc' = "exited"
            /\ UNCHANGED <<out, cmd, input>>
       [] cmd.kind = "Echo" ->
            /\ out' = cmd.text \o <<"\n">>
            /\ pc' = "prompt" /\ cmd' = NoCommand /\ input' = <<>>
       [] cmd.kind = "Unknown" ->
            /\ out' = cmd.text \o <<": command not found">> \o <<"\n">>
            /\ pc' = "prompt" /\ cmd' = NoCommand /\ input' = <<>>
       [] cmd.kind = "Empty" ->
            /\ out' = <<>>
            /\ pc' = "prompt" /\ cmd' = NoCommand /\ input' = <<>>
  /\ UNCHANGED <<tokvars, caller, cwd>>

ShellNext ==
  \/ Prompt
  \/ ReadLine
  \/ ParseEmpty
  \/ ParseExit
  \/ ParseEcho
  \/ ParseType
  \/ ParsePwd
  \/ ParseCd
  \/ ParseExternal
  \/ StepDoubleEscaped
  \/ StepDoubleQuoted
  \/ StepSingleQuoted
  \/ StepNormalEscaped
  \/ StepNormalChar
  \/ Return
  \/ EchoJoin
  \/ ExecCommand
  \/ RunCommand

ShellSpec == ShellInit /\ [][ShellNext]_vars

\* ------------------------------------------------------ helpers of claims
\* the concatenation of the tokens, with no separator
RECURSIVE Concat(_)
Concat(ts) == IF ts = <<>> THEN <<>> ELSE Head(ts) \o Concat(Tail(ts))

IsPrefix(a, b) == Len(a) <= Len(b) /\ SubSeq(b, 1, Len(a)) = a

\* the whitespace characters of the reference splitting
WhitespaceChars == {" ", "\t", "\n", "\f", "\r"}

\* first index >= i of l that is not whitespace (Len(l) + 1 if none)
SkipWhitespace(l, i) ==
  CHOOSE j \in i..(Len(l) + 1) :
    /\ j = Len(l) + 1 \/ l[j] \notin WhitespaceChars
    /\ \A k \in i..(j - 1) : l[k] \in WhitespaceChars

\* first index >= i of l that is whitespace (Len(l) + 1 if none)
WordEnd(l, i) ==
  CHOOSE j \in i..(Len(l) + 1) :
    /\ j = Len(l) + 1 \/ l[j] \in WhitespaceChars
    /\ \A k \in i..(j - 1) : l[k] \notin WhitespaceChars

\* the words of l from index i on: maximal runs of non-whitespace
RECURSIVE WordsFrom(_, _)
WordsFrom(l, i) ==
  LET b == SkipWhitespace(l, i) IN
    IF b > Len(l) THEN <<>>
    ELSE LET e == WordEnd(l, b) IN <<SubSeq(l, b, e - 1)>> \o WordsFrom(l, e)

WhitespaceSplit(l) == WordsFrom(l, 1)

NoQuoting(l) == \A i \in 1..Len(l) : l[i] \notin {SQ, DQ, BS}

Done == pc = "done"

\* ------------------------------------------------------------------ claims

\* C1: for a line with no single quote, double quote or backslash the
\* result is exactly the whitespace-split words of the line, in order; the
\* empty line and whitespace-only lines give no token.
C1_PlainLineIsWhitespaceSplit ==
  (Done /\ NoQuoting(line)) => parts = WhitespaceSplit(line)

C1_Witness ==
  /\ Done /\ NoQuoting(line)
  /\ Len(line) = 4 /\ Len(parts) = 2
  /\ line[1] \in WhitespaceChars /\ line[3] \in WhitespaceChars

\* X, when the line is a single quote, X, a single quote and X has no
\* single quote
IsSingleQuotedForm(l) ==
  /\ Len(l) >= 2 /\ l[1] = SQ /\ l[Len(l)] = SQ
  /\ \A i \in 2..(Len(l) - 1) : l[i] # SQ

\* C2: for X without a single quote, the tokens of 'X' concatenated with no
\* separator are X.
C2_SingleQuoteRoundTrip ==
  (Done /\ IsSingleQuotedForm(line)) =>
    Concat(parts) = SubSeq(line, 2, Len(line) - 1)

C2_Witness ==
  /\ Done /\ IsSingleQuotedForm(line) /\ Len(line) = 4
  /\ line[2] = BS /\ line[3] \in {SP, DQ}
  /\ parts = <<SubSeq(line, 2, 3)>>

\* C3: inside double quotes a backslash followed by a double quote or a
\* backslash appends only that second character, clears esc and stays in
\* double-quoted mode.
C3_DoubleQuoteEscapes ==
  [][(HasNext /\ in_double /\ esc /\ ch \in {DQ, BS}) =>
       /\ cur' = Append(cur, ch)
       /\ ~esc' /\ in_double' /\ ~in_single'
       /\ parts' = parts]_vars

C3_Witness ==
  /\ pc = "scan" /\ in_double /\ ~esc /\ pos >= 3
  /\ line[pos - 1] = BS /\ line[pos] = DQ
  /\ cur = <<"a", DQ>>

\* C4: inside double quotes a backslash followed by any other character
\* appends the backslash and then that character, clears esc and stays in
\* double-quoted mode.
C4_DoubleQuoteOtherEscape ==
  [][(HasNext /\ in_double /\ esc /\ ch \notin {DQ, BS}) =>
       /\ cur' = Append(Append(cur, BS), ch)
       /\ ~esc' /\ in_double' /\ ~in_single'
       /\ parts' = parts]_vars

C4_Witness ==
  /\ pc = "scan" /\ in_double /\ ~esc /\ pos >= 3
  /\ line[pos - 1] = BS /\ line[pos] \notin {DQ, BS}
  /\ Len(cur) >= 2
  /\ cur[Len(cur) - 1] = BS /\ cur[Len(cur)] = line[pos]

\* C5: outside quotes a backslash is dropped and the character after it is
\* appended as it is, with no structural effect: no token ends, no quoted
\* mode is entered, no new escape starts.
C5_NormalEscape ==
  [][/\ (HasNext /\ ~in_double /\ ~in_single /\ ~esc /\ ch = BS) =>
          (esc' /\ cur' = cur /\ parts' = parts)
     /\ (HasNext /\ ~in_double /\ ~in_single /\ esc) =>
          /\ cur' = Append(cur, ch)
          /\ parts' = parts
          /\ ~esc' /\ ~in_double' /\ ~in_single']_vars

C5_Witness ==
  /\ Done /\ Len(line) = 4
  /\ line[2] = BS /\ line[3] \in {SP, SQ, DQ, BS}
  /\ parts = << <<line[1], line[3], line[4]>> >>

\* C6: when the input ends with esc set, a backslash is appended to the
\* current token before the final flush, so the last token ends with a
\* backslash.
C6_TrailingBackslashKept ==
  [][(pc = "scan" /\ pos = Len(line) /\ esc) =>
       /\ parts' = Append(parts, Append(cur, BS))
       /\ pc' = "done"]_vars

C6_Witness ==
  /\ Done /\ esc /\ parts # <<>>
  /\ Len(parts[Len(parts)]) >= 2
  /\ parts[Len(parts)][Len(parts[Len(parts)])] = BS

\* C7: the scan is total: each step consumes one character, and every
\* line, also with unbalanced quotes or a trailing backslash, reaches the
\* return with a token sequence.
C7_Total ==
  /\ [][(pc = "scan" /\ pos < Len(line)) =>
          (pos' = pos + 1 /\ pc' = "scan")]_vars
  /\ [][(pc = "scan" /\ pos = Len(line)) => pc' = "done"]_vars
  /\ <>(pc = "done" /\ pos = Len(line) /\ parts \in Seq(Seq(Alphabet)))

C7_Witness ==
  /\ Done /\ pos = Len(line) /\ Len(line) = MaxLen
  /\ (in_single \/ in_double \/ esc)

\* C8: every token of the output is non-empty.
C8_NoEmptyToken == \A i \in 1..Len(parts) : parts[i] # <<>>

C8_Witness ==
  /\ Done /\ parts # <<>>
  /\ \E i \in 1..(Len(line) - 1) :
       \/ line[i] \in WhitespaceChars /\ line[i + 1] \in WhitespaceChars
       \/ line[i] = SQ /\ line[i + 1] = SQ
       \/ line[i] = DQ /\ line[i + 1] = DQ

Quoted(s) == s.in_single \/ s.in_double

\* the position of the quote that opened the quoted mode the line l ends in
OpenPos(l) ==
  CHOOSE q \in 1..Len(l) :
    /\ ~Quoted(StateAfter(l, q - 1))
    /\ \A k \in q..Len(l) : Quoted(StateAfter(l, k))

\* the output made of the tokens ts followed by the text t, if any
WithFinal(ts, t) == IF t = <<>> THEN ts ELSE Append(ts, t)

\* the text of r read by the escape rules of double quotes: a backslash
\* before a double quote or a backslash is dropped, any other is kept
RECURSIVE DoubleQuoteText(_)
DoubleQuoteText(r) ==
  IF r = <<>> THEN <<>>
  ELSE IF r[1] = BS /\ Len(r) >= 2 /\ r[2] \in {DQ, BS}
    THEN <<r[2]>> \o DoubleQuoteText(SubSeq(r, 3, Len(r)))
    ELSE <<r[1]>> \o DoubleQuoteText(Tail(r))

\* C9 as stated: after a quote that is never closed every remaining
\* character is taken literally into the current token, and the text is
\* flushed at end of input as if the quote had been closed there.
C9_UnclosedQuoteLiteral ==
  (Done /\ (in_single \/ in_double)) =>
    LET q == OpenPos(line)
        before == StateAfter(line, q - 1)
        rest == SubSeq(line, q + 1, Len(line))
    IN /\ parts = WithFinal(before.parts, before.cur \o rest)
       /\ parts = split_quoted_line(Append(line, line[q]))

\* C9 (amended): after a quote that is never closed the mode stays quoted
\* to the end of input and the accumulated text is flushed as the final
\* token; after a single quote every remaining character is taken
\* literally; after a double quote the rest is read by the double-quote
\* escape rules (a backslash before a double quote or a backslash is
\* dropped, any other backslash is kept); unless a backslash is pending at
\* the end, the result is that of the line with the quote closed there.
C9_UnclosedQuoteFlushed ==
  (Done /\ (in_single \/ in_double)) =>
    LET q == OpenPos(line)
        before == StateAfter(line, q - 1)
        rest == SubSeq(line, q + 1, Len(line))
        text == IF in_single THEN rest ELSE DoubleQuoteText(rest)
    IN /\ line[q] = (IF in_single THEN SQ ELSE DQ)
       /\ in_single # in_double
       /\ parts = WithFinal(before.parts, before.cur \o text)
       /\ ~esc => parts = split_quoted_line(Append(line, line[q]))

C9_Witness ==
  /\ Done /\ in_double /\ ~esc /\ Len(line) = 4
  /\ OpenPos(line) = 2 /\ line[3] = BS /\ line[4] = DQ
  /\ parts = << <<line[1], DQ>> >>

\* the characters put out so far
Flat == Concat(parts) \o cur

\* C10: the output is append-only and in input order: flushed tokens stay
\* an unchanged prefix of the output up to the final result, and every step
\* adds characters only at the end of the output, taken from the position
\* of the input being read.
C10_AppendOnlyInOrder ==
  /\ [][IsPrefix(parts, parts')]_vars
  /\ [](IsPrefix(parts, split_quoted_line(line)))
  /\ [][HasNext =>
          \E d \in {<<>>, <<ch>>} \cup
                   (IF pos >= 1 THEN {<<line[pos], ch>>} ELSE {}) :
            Flat' = Flat \o d]_vars
  /\ [][(pc = "scan" /\ pos = Len(line)) =>
          \E d \in {<<>>} \cup (IF pos >= 1 THEN {<<line[pos]>>} ELSE {}) :
            Flat' = Flat \o d]_vars

C10_Witness ==
  /\ Done /\ Len(parts) = 2 /\ parts[1] # parts[2]
  /\ parts = WhitespaceSplit(line)

\* C13 as stated: when the input ends with esc set, the tokenizer is in
\* Normal mode.
C13_EscAtEndOnlyNormal ==
  (pc = "scan" /\ pos = Len(line) /\ esc) => (~in_single /\ ~in_double)

\* C13 (amended): when the input ends with esc set, the tokenizer is in
\* Normal or DoubleQuoted mode, never in SingleQuoted mode; in DoubleQuoted
\* mode this is a line that ends with a backslash after an unclosed double
\* quote.
C13_EscAtEndNotSingle ==
  (pc = "scan" /\ pos = Len(line) /\ esc) =>
    /\ ~in_single
    /\ pos >= 1 /\ line[pos] = BS
    /\ in_double => OpenPos(line) < pos

C13_Witness ==
  /\ pc = "scan" /\ pos = Len(line) /\ esc /\ in_double
  /\ OpenPos(line) = 2 /\ cur = <<"a", "b">>

\* the quoting mode of the scan
Mode ==
  IF in_single /\ in_double THEN "Both"
  ELSE IF in_single THEN "SingleQuoted"
  ELSE IF in_double THEN "DoubleQuoted"
  ELSE "Normal"

\* C14: in_single and in_double are never both true, and the mode changes
\* only between Normal and one quoted mode: into SingleQuoted from Normal
\* on an unescaped single quote and out of it on the next single quote,
\* into DoubleQuoted from Normal on an unescaped double quote and out of it
\* on an unescaped double quote.
C14_ModesExclusive ==
  /\ [](Mode # "Both")
  /\ [][Mode' # Mode =>
          /\ HasNext
          /\ Mode = "Normal" \/ Mode' = "Normal"
          /\ (Mode' = "SingleQuoted") => (Mode = "Normal" /\ ~esc /\ ch = SQ)
          /\ (Mode = "SingleQuoted") => ch = SQ
          /\ (Mode' = "DoubleQuoted") => (Mode = "Normal" /\ ~esc /\ ch = DQ)
          /\ (Mode = "DoubleQuoted") => (~esc /\ ch = DQ)]_vars
  /\ [][(HasNext /\ Mode = "SingleQuoted" /\ ch # SQ) =>
          Mode' = "SingleQuoted"]_vars
  /\ [][(HasNext /\ Mode = "DoubleQuoted" /\ (esc \/ ch # DQ)) =>
          Mode' = "DoubleQuoted"]_vars

C14_Witness ==
  /\ pc = "scan" /\ Mode = "DoubleQuoted" /\ pos = 4
  /\ line[1] = SQ /\ line[2] = DQ /\ line[3] = SQ /\ line[4] = DQ
  /\ cur = <<DQ>>

\* the number of occurrences of the character c in the text t
Count(c, t) == Cardinality({i \in 1..Len(t) : t[i] = c})

\* C15: a quote character reaches the output only when it was escaped or
\* stood inside the other kind of quotes: a single quote only when escaped
\* in Normal mode or read in DoubleQuoted mode, a double quote only when
\* escaped in Normal or DoubleQuoted mode or read in SingleQuoted mode; a
\* quote that opens or closes a span is never copied.
C15_NoQuoteDelimiterInOutput ==
  /\ [][Count(SQ, Flat') = Count(SQ, Flat) +
          (IF HasNext /\ ch = SQ
                /\ (Mode = "DoubleQuoted" \/ (Mode = "Normal" /\ esc))
             THEN 1 ELSE 0)]_vars
  /\ [][Count(DQ, Flat') = Count(DQ, Flat) +
          (IF HasNext /\ ch = DQ
                /\ (Mode = "SingleQuoted" \/ (Mode # "SingleQuoted" /\ esc))
             THEN 1 ELSE 0)]_vars
  /\ [][(HasNext /\ ch \in {SQ, DQ} /\ Mode' # Mode) => Flat' = Flat]_vars

C15_Witness ==
  /\ Done /\ Len(line) = 4
  /\ line[1] = DQ /\ line[2] = SQ /\ line[3] = DQ /\ line[4] = SQ
  /\ parts = << <<SQ>> >>

\* C16: there is no escape processing in SingleQuoted mode: esc is never
\* true there, and a backslash read there is appended like any other
\* character and leaves the handling of the next character alone.
C16_NoEscapeInSingle ==
  /\ [](~(in_single /\ esc))
  /\ [][(HasNext /\ in_single /\ ch = BS) =>
          /\ cur' = Append(cur, BS)
          /\ ~esc' /\ in_single' /\ ~in_double'
          /\ parts' = parts]_vars

C16_Witness ==
  /\ Done /\ Len(line) = 4
  /\ line[1] = SQ /\ line[2] = BS /\ line[3] = SQ /\ line[4] = "a"
  /\ parts = << <<BS, "a">> >>

\* C17: a token is flushed only on an unescaped whitespace character read
\* in Normal mode or at end of input: never in a quoted mode, on an escaped
\* character, or on a quote that opens or closes a span.
C17_BoundaryOnlyOnWhitespace ==
  [][parts' # parts =>
       \/ HasNext /\ Mode = "Normal" /\ ~esc /\ ch \in WhitespaceChars
       \/ pc = "scan" /\ pos = Len(line)]_vars

C17_Witness ==
  /\ Done /\ Len(line) = 4
  /\ line[1] = "a" /\ line[2] = SQ /\ line[3] = SP /\ line[4] = SQ
  /\ parts = << <<"a", SP>> >>

\* C11: the state of the tokenizer does not survive a call: whatever line
\* was processed before, also one that ended inside a quote or with a
\* pending backslash, the next tokenization starts in Normal mode with esc
\* false and no current token, and its result depends on its line only.
C11_FreshStatePerLine ==
  /\ [][(pc = "parse" /\ pc' = "scan") =>
          /\ pos' = 0
          /\ ~in_single' /\ ~in_double' /\ ~esc'
          /\ cur' = <<>> /\ parts' = <<>>]_vars
  /\ [](pc = "done" => parts = split_quoted_line(line))

C11_Witness ==
  /\ pc = "parse" /\ in_double /\ esc
  /\ Branch(Trim(input)) = "echo"
  /\ split_quoted_line(TrimStart(AfterPrefix(Trim(input), KwEcho))) =
       << <<"a">>, <<"a">> >>

\* C12: parse_command tokenizes the whole line and runs its first token as
\* an external program exactly when the first whitespace-delimited word of
\* the trimmed line is not one of exit, echo, type, pwd, cd.
C12_DispatchByFirstWord ==
  /\ [][(pc = "parse" /\ Trim(input) # <<>>) =>
          ((pc' = "scan" /\ caller' = "exec" /\ line' = Trim(input))
             <=> WhitespaceSplit(Trim(input))[1] \notin Builtins)]_vars
  /\ [][(pc = "done" /\ caller = "exec" /\ cmd'.kind = "Unknown") =>
          cmd'.text = parts[1]]_vars

\* the line as typed, without the newline that ends it
Typed(l) == IF l # <<>> /\ l[Len(l)] = "\n" THEN SubSeq(l, 1, Len(l) - 1) ELSE l

\* the line after the echo keyword
ArgumentPortion(l) == AfterPrefix(TrimStart(Typed(l)), KwEcho)

\* C18: the echo builtin prints the tokens of the text after the echo
\* keyword joined by one space each, so whitespace in quotes or after a
\* backslash is printed as it is.
C18_EchoPrintsTokens ==
  [][(pc = "run" /\ Branch(Trim(input)) = "echo") =>
       out' = Join(split_quoted_line(ArgumentPortion(input)), <<SP>>)
                \o <<"\n">>]_vars

====
